---- MODULE Spec2Model ----
(***************************************************************************)
(* BotPDF: a Streamlit chat page that answers a prompt either with the     *)
(* local LLM (stream_response) or, when the directory data/ holds at least *)
(* one entry, with the retrieval pipeline (search_pdf).                    *)
(*                                                                         *)
(* Two entry scripts exist, llm_interface.py and frontend_chatbot.py.      *)
(* Streamlit runs the script's main() from top to bottom on every rerun,   *)
(* one script thread per browser session; every session of the process     *)
(* shares the working directory, hence data/ and ./chroma_db_data.         *)
(* A session's run is modelled as a process whose steps are the places     *)
(* where main() touches shared state or an external service.  The user     *)
(* interacts with a session only while its script is idle.                 *)
(***************************************************************************)
EXTENDS Integers, Sequences, FiniteSets, TLC

\* ---------------------------------------------------------------- bounds
\* Widget interactions (uploads, removals, submissions) explored for one
\* user, and for all users together when several share the page.
MaxClicks == 4
MaxSharedClicks == 3

Sessions == {"s1", "s2"}
Scripts == {"llm_interface", "frontend_chatbot"}
\* The files the user has at hand: two of one name, and one of 0 bytes.
Files == {[name |-> "a.pdf", bytes |-> <<1>>],
          [name |-> "a.pdf", bytes |-> <<2, 3>>],
          [name |-> "b.pdf", bytes |-> <<>>]}
\* time.time() readings, counted in ticks of 1/1024 s (such a reading and the
\* difference of two of them are exact as Python floats): the start of a turn,
\* and the reading end_time gets when n fragments were consumed since start.
TicksPerSecond == 1024
StartTimes == {1024}
EndTimes(start, n) == {start + 4 + 6 * n}

VARIABLES
    script,         \* the entry script the server runs for each session
    data_dir,       \* the directory data/ exists
    data,           \* the directory data/: entry name -> file content
    chroma,         \* collection "reviews" of ./chroma_db_data: stored entries
    uploader,       \* st.sidebar.file_uploader: <<>> or <<file>>
    chat_input,     \* st.chat_input: the prompt just submitted, "" if none
    user_input,     \* st.text_input(key="user_input"): the box's text
    session_state,  \* st.session_state: a dict, "messages" -> list of turns
    pc,             \* where the session's script run stands
    offset,         \* save_uploaded_file(): bytes written through `file`
    prompt,         \* main(): prompt
    start_time,     \* main(): start_time
    elapsed_time,   \* main(): elapsed_time, <<>> until it is taken
    stream,         \* fragments the response generator has yet to yield
    shown,          \* fragments consumed from the generator so far
    response,       \* main(): response
    documents,      \* search_pdf(): documents
    index,          \* search_pdf(): entries behind the query engine's index
    calls,          \* services called by the current run, in order
    error,          \* the call whose exception ended the last run, or ""
    clicks,         \* widget interactions so far, of all sessions
    trigger         \* the widget whose change started the run in progress

vars == <<script, data_dir, data, chroma, uploader, chat_input, user_input,
          session_state, pc, offset, prompt, start_time, elapsed_time, stream,
          shown, response, documents, index, calls, error, clicks, trigger>>

\* Every session has the page open: two users share the server.
TwoUsers == \A s \in Sessions : pc[s] # "closed"

\* The prompts a user may type; two users are explored with one prompt each.
Prompts == IF TwoUsers THEN {"Hello"} ELSE {"Hello", "Summarize this"}
\* What a service may stream: the fragments of one answer, in order; two
\* users are explored with one answer.
Responses == IF TwoUsers THEN {<<"Hi", "!">>} ELSE {<<"Hi">>, <<"Hi", "!">>}

\* ---------------------------------------------------------------- values
Str(text) == [type |-> "str", value |-> text]
Generator(fn) == [type |-> "generator", value |-> fn]
NoResponse == Str("")

UserTurn(p) == [role |-> "user", content |-> Str(p)]
AssistantTurn(r, t) == [role |-> "assistant", content |-> r, elapsed_time |-> t]

NoState == [k \in {} |-> <<>>]
HasMessages(s) == "messages" \in DOMAIN session_state[s]
Messages(s) == IF HasMessages(s) THEN session_state[s]["messages"] ELSE <<>>

\* The greeting of llm_interface.py; frontend_chatbot.py starts empty.
InitialMessages(sc) ==
    IF sc = "llm_interface"
    THEN <<AssistantTurn(Str("How can I help you?"), 0)>>
    ELSE <<>>

RECURSIVE Join(_)
\* "".join(fragments), what st.write_stream returns for string chunks.
Join(frags) == IF frags = <<>> THEN "" ELSE Head(frags) \o Join(Tail(frags))

\* round(end_time - start_time, 2) for a difference of `ticks` ticks, in
\* hundredths of a second.  The float holds ticks/1024 s exactly, and round()
\* rounds the value the float holds, to the nearest hundredth and to the even
\* one when it lies exactly halfway (128 ticks = 0.125 s gives 0.12).
Round2(ticks) ==
    LET q == (100 * ticks) \div TicksPerSecond
        r == (100 * ticks) % TicksPerSecond
    IN  IF 2 * r < TicksPerSecond THEN q
        ELSE IF 2 * r > TicksPerSecond THEN q + 1
        ELSE IF q % 2 = 0 THEN q ELSE q + 1

\* Mutant of OpenWb: the file is opened without truncation (mode "ab").
OpenNoTruncate(dir, name) ==
    [n \in DOMAIN dir \cup {name} |-> IF n \in DOMAIN dir THEN dir[n] ELSE <<>>]

\* open(path, "wb"): the file exists afterwards and is empty.
OpenWb(dir, name) ==
    [n \in DOMAIN dir \cup {name} |-> IF n = name THEN <<>> ELSE dir[n]]

\* Mutant of WriteAt: the bytes go to the end of the file.
WriteAppend(old, at, bytes) == old \o bytes

\* The file after `bytes` went in at position `at` of the descriptor: they
\* replace what the file holds there by then, the rest stays; a gap before
\* `at` reads as zeros.
WriteAt(old, at, bytes) ==
    [i \in 1..(IF Len(old) > at + Len(bytes) THEN Len(old)
               ELSE at + Len(bytes)) |->
        IF i > at /\ i <= at + Len(bytes) THEN bytes[i - at]
        ELSE IF i <= Len(old) THEN old[i]
        ELSE 0]

\* os.listdir('data/')
ListDir(dir) == DOMAIN dir

\* SimpleDirectoryReader("data/").load_data(): one entry per stored file.
LoadData(dir) == {<<n, dir[n]>> : n \in DOMAIN dir}

\* ---------------------------------------------------------------- Init
\* The server has just been started, in a directory with or without an (empty)
\* data/, and the page opened by the sessions of `opened`: each runs main()
\* for the first time, with every widget at its default.
InitWith(opened) ==
    /\ \E sc \in Scripts : script = [s \in Sessions |-> sc]
    /\ data_dir \in BOOLEAN
    /\ data = [n \in {} |-> <<>>]
    /\ chroma = {}
    /\ uploader = [s \in Sessions |-> <<>>]
    /\ chat_input = [s \in Sessions |-> ""]
    /\ user_input = [s \in Sessions |-> ""]
    /\ session_state = [s \in Sessions |-> NoState]
    /\ pc = [s \in Sessions |-> IF s \in opened THEN "exists" ELSE "closed"]
    /\ offset = [s \in Sessions |-> 0]
    /\ prompt = [s \in Sessions |-> ""]
    /\ start_time = [s \in Sessions |-> 0]
    /\ elapsed_time = [s \in Sessions |-> <<>>]
    /\ stream = [s \in Sessions |-> <<>>]
    /\ shown = [s \in Sessions |-> <<>>]
    /\ response = [s \in Sessions |-> NoResponse]
    /\ documents = [s \in Sessions |-> {}]
    /\ index = [s \in Sessions |-> {}]
    /\ calls = [s \in Sessions |-> <<>>]
    /\ error = [s \in Sessions |-> ""]
    /\ clicks = 0
    /\ trigger = [s \in Sessions |-> "page"]

\* One user.
Init == InitWith({"s1"})

\* Two users at once, on the same server.
InitShared == InitWith(Sessions)

\* ---------------------------------------------------------------- the user
IsLlm(s) == script[s] = "llm_interface"

\* A rerun starts main() again.
BeginRun(s, widget) ==
    /\ pc' = [pc EXCEPT ![s] = "exists"]
    /\ trigger' = [trigger EXCEPT ![s] = widget]
    /\ error' = [error EXCEPT ![s] = ""]
    /\ clicks' = clicks + 1
    /\ UNCHANGED <<script, data_dir, data, chroma, session_state, offset,
                   prompt, start_time, elapsed_time, stream, shown, response,
                   documents, index, calls>>

\* main() returns or is unwound: its locals are gone.
EndRun(s) ==
    /\ pc' = [pc EXCEPT ![s] = "idle"]
    /\ offset' = [offset EXCEPT ![s] = 0]
    /\ trigger' = [trigger EXCEPT ![s] = "none"]
    /\ prompt' = [prompt EXCEPT ![s] = ""]
    /\ start_time' = [start_time EXCEPT ![s] = 0]
    /\ elapsed_time' = [elapsed_time EXCEPT ![s] = <<>>]
    /\ stream' = [stream EXCEPT ![s] = <<>>]
    /\ shown' = [shown EXCEPT ![s] = <<>>]
    /\ response' = [response EXCEPT ![s] = NoResponse]
    /\ documents' = [documents EXCEPT ![s] = {}]
    /\ index' = [index EXCEPT ![s] = {}]
    /\ calls' = [calls EXCEPT ![s] = <<>>]

\* The user may still interact with the page.
MayClick ==
    clicks < (IF TwoUsers THEN MaxSharedClicks ELSE MaxClicks)

\* The user picks a file in the sidebar uploader.
UserUpload(s, f) ==
    /\ pc[s] = "idle"
    /\ uploader[s] # <<f>>
    /\ MayClick
    /\ uploader' = [uploader EXCEPT ![s] = <<f>>]
    /\ UNCHANGED <<chat_input, user_input>>
    /\ BeginRun(s, "file_uploader")

\* The user removes the file from the uploader.
UserRemove(s) ==
    /\ pc[s] = "idle"
    /\ uploader[s] # <<>>
    /\ MayClick
    /\ uploader' = [uploader EXCEPT ![s] = <<>>]
    /\ UNCHANGED <<chat_input, user_input>>
    /\ BeginRun(s, "file_uploader")

\* The user submits a prompt: st.chat_input hands it to the next run only,
\* st.text_input keeps it as the box's value.
UserSubmit(s, p) ==
    /\ pc[s] = "idle"
    /\ MayClick
    /\ IF IsLlm(s)
       THEN /\ chat_input' = [chat_input EXCEPT ![s] = p]
            /\ UNCHANGED user_input
       ELSE /\ user_input[s] # p
            /\ user_input' = [user_input EXCEPT ![s] = p]
            /\ UNCHANGED chat_input
    /\ UNCHANGED uploader
    /\ BeginRun(s, IF IsLlm(s) THEN "chat_input" ELSE "text_input")

\* The user empties the text box of frontend_chatbot.py.
UserClear(s) ==
    /\ pc[s] = "idle"
    /\ MayClick
    /\ ~IsLlm(s)
    /\ user_input[s] # ""
    /\ user_input' = [user_input EXCEPT ![s] = ""]
    /\ UNCHANGED <<uploader, chat_input>>
    /\ BeginRun(s, "text_input")

\* ---------------------------------------------------------------- main()
\* What a step of main() leaves alone besides what it names.
Widgets == <<script, uploader, user_input, clicks>>

\* Mutant of Raise: the failed prompt's user turn is taken back.
RaiseRollback(s, call) ==
    /\ EndRun(s)
    /\ error' = [error EXCEPT ![s] = call]
    /\ session_state' = [session_state EXCEPT ![s] =
          IF "messages" \in DOMAIN @
          THEN [@ EXCEPT !["messages"] = SubSeq(@, 1, Len(@) - 1)]
          ELSE @]
    /\ chat_input' = [chat_input EXCEPT ![s] = ""]
    /\ UNCHANGED <<Widgets, data_dir, data, chroma>>

\* `call` raises and nothing catches it: the run ends there, Streamlit shows
\* the traceback.  A prompt submitted to st.chat_input is handed to this run
\* only: it is gone with the run, also when st.chat_input() was not reached.
Raise(s, call) ==
    /\ EndRun(s)
    /\ error' = [error EXCEPT ![s] = call]
    /\ chat_input' = [chat_input EXCEPT ![s] = ""]
    /\ UNCHANGED <<Widgets, data_dir, data, chroma, session_state>>

\* if os.path.exists('data') is False: ...
CheckDir(s) ==
    /\ pc[s] = "exists"
    /\ pc' = [pc EXCEPT ![s] = IF data_dir = FALSE THEN "mkdir" ELSE "upload"]
    /\ UNCHANGED <<Widgets, trigger, data_dir, data, chroma, chat_input,
                   session_state, offset, prompt, start_time, elapsed_time,
                   stream, shown, response, documents, index, calls, error>>

\* os.mkdir('data'): FileExistsError when the directory has appeared since
\* the test; without the directory the call creates it, or raises as well (a
\* dangling link of that name, a read-only working directory, ...).
MakeDir(s) ==
    /\ pc[s] = "mkdir"
    /\ \/ Raise(s, "mkdir")
       \/   /\ data_dir = FALSE
            /\ data_dir' = TRUE
            /\ pc' = [pc EXCEPT ![s] = "upload"]
            /\ UNCHANGED <<Widgets, trigger, data, chroma, chat_input,
                           session_state, offset, prompt, start_time,
                           elapsed_time, stream, shown, response, documents,
                           index, calls, error>>

\* A file.write(...) of another session on this file is under way: the file
\* system lets neither a truncation nor another write in until it is done
\* (readers are not held back).
Writing(s, name) ==
    \E o \in Sessions \ {s} :
        /\ pc[o] = "write"
        /\ offset[o] > 0
        /\ uploader[o][1].name = name

\* if uploaded_pdf is not None: ... -- nothing uploaded.
SkipUpload(s) ==
    /\ pc[s] = "upload"
    /\ uploader[s] = <<>>
    /\ pc' = [pc EXCEPT ![s] = "init"]
    /\ UNCHANGED <<Widgets, trigger, data_dir, data, chroma, chat_input,
                   session_state, offset, prompt, start_time, elapsed_time,
                   stream, shown, response, documents, index, calls, error>>

\* save_uploaded_file: with open(os.path.join("data", name), "wb") as file
SaveOpen(s) ==
    /\ pc[s] = "upload"
    /\ uploader[s] # <<>>
    /\ ~Writing(s, uploader[s][1].name)
    /\ data' = OpenWb(data, uploader[s][1].name)
    /\ pc' = [pc EXCEPT ![s] = "write"]
    /\ UNCHANGED <<Widgets, trigger, data_dir, chroma, chat_input,
                   session_state, offset, prompt, start_time, elapsed_time,
                   stream, shown, response, documents, index, calls, error>>

\* save_uploaded_file: file.write(uploaded_file.getbuffer()), and the close.
\* The buffer reaches the file piece by piece, a reader in between sees the
\* pieces written so far; after the last piece (for an empty buffer: after
\* the one write of nothing) the file is closed and save_uploaded_file
\* returns.
SaveWrite(s) ==
    /\ pc[s] = "write"
    /\ offset[s] = 0 => ~Writing(s, uploader[s][1].name)
    /\ LET f == uploader[s][1]
       IN  \E k \in (IF f.bytes = <<>> THEN {0}
                     ELSE 1..(Len(f.bytes) - offset[s])) :
              /\ data' = [data EXCEPT ![f.name] =
                    WriteAt(@, offset[s],
                            SubSeq(f.bytes, offset[s] + 1, offset[s] + k))]
              /\ IF offset[s] + k = Len(f.bytes)
                 THEN /\ pc' = [pc EXCEPT ![s] = "init"]
                      /\ offset' = [offset EXCEPT ![s] = 0]
                 ELSE /\ offset' = [offset EXCEPT ![s] = @ + k]
                      /\ UNCHANGED pc
    /\ UNCHANGED <<Widgets, trigger, data_dir, chroma, chat_input,
                   session_state, prompt, start_time, elapsed_time, stream,
                   shown, response, documents, index, calls, error>>

\* save_uploaded_file raises: open() (data is not a directory, the name is too
\* long, ...) or file.write() (the disk is full, ...); what write() had put
\* into the file stays there.
SaveFail(s) ==
    /\ \/ pc[s] = "upload" /\ uploader[s] # <<>>
       \/ pc[s] = "write"
    /\ Raise(s, "save_uploaded_file")

\* Mutant of InitialState: the history is set on every run.
InitialStateReset(st, sc) ==
    [k \in DOMAIN st \cup {"messages"} |->
        IF k = "messages" THEN InitialMessages(sc) ELSE st[k]]

\* if "messages" not in st.session_state: st.session_state["messages"] = ...
InitialState(st, sc) ==
    IF "messages" \in DOMAIN st
    THEN st
    ELSE [k \in DOMAIN st \cup {"messages"} |->
            IF k = "messages" THEN InitialMessages(sc) ELSE st[k]]

Initialize(s) ==
    /\ pc[s] = "init"
    /\ session_state' =
         [session_state EXCEPT ![s] = InitialState(@, script[s])]
    /\ pc' = [pc EXCEPT ![s] = "input"]
    /\ UNCHANGED <<Widgets, trigger, data_dir, data, chroma, chat_input,
                   offset, prompt, start_time, elapsed_time, stream, shown,
                   response, documents, index, calls, error>>

\* Mutant of AppendTurn: the turn is inserted at the front.
AppendTurnFront(st, turn) ==
    [st EXCEPT !["messages"] = <<turn>> \o @]

\* st.session_state.messages.append(turn)
AppendTurn(st, turn) ==
    [st EXCEPT !["messages"] = Append(@, turn)]

\* prompt := st.chat_input()  /  prompt = st.text_input("You:", key=...)
ReadPrompt(s) == IF IsLlm(s) THEN chat_input[s] ELSE user_input[s]

\* if prompt: append the user turn; otherwise the run is over.
AcceptInput(s) ==
    /\ pc[s] = "input"
    /\ chat_input' = [chat_input EXCEPT ![s] = ""]
    /\ IF ReadPrompt(s) # ""
       THEN /\ prompt' = [prompt EXCEPT ![s] = ReadPrompt(s)]
            /\ session_state' = [session_state EXCEPT
                                   ![s] = AppendTurn(@, UserTurn(ReadPrompt(s)))]
            /\ pc' = [pc EXCEPT ![s] = "route"]
            /\ UNCHANGED <<trigger, offset, start_time, elapsed_time, stream,
                           shown, response, documents, index, calls>>
       ELSE /\ EndRun(s)
            /\ UNCHANGED session_state
    /\ UNCHANGED <<Widgets, data_dir, data, chroma, error>>

\* Mutant of StoreIsEmpty: off by one.
StoreIsEmptyOrSingle(dir) == Cardinality(ListDir(dir)) <= 1

\* if len(os.listdir('data/')) == 0
StoreIsEmpty(dir) == Cardinality(ListDir(dir)) = 0

\* frontend_chatbot.py takes end_time as soon as the service call returns its
\* generator; llm_interface.py takes it after st.write_stream has returned.
TimedAtCall(s) == ~IsLlm(s)

\* The call returned the lazy generator gen, in a turn started at `start`:
\* what main() holds afterwards.
Returned(s, gen, frags, start) ==
    /\ stream' = [stream EXCEPT ![s] = frags]
    /\ pc' = [pc EXCEPT ![s] = "drain"]
    /\ IF TimedAtCall(s)
       THEN /\ response' = [response EXCEPT ![s] = Generator(gen)]
            /\ \E end_time \in EndTimes(start, 0) :
                  elapsed_time' = [elapsed_time EXCEPT
                                     ![s] = <<Round2(end_time - start)>>]
       ELSE UNCHANGED <<response, elapsed_time>>

\* start_time = time.time(); the listing is empty: stream_response(prompt)
RouteGeneration(s) ==
    /\ pc[s] = "route"
    /\ StoreIsEmpty(data)
    /\ \E t \in StartTimes :
          /\ start_time' = [start_time EXCEPT ![s] = t]
          /\ \E frags \in Responses :
                Returned(s, "stream_response", frags, t)
    /\ calls' = [calls EXCEPT ![s] = Append(@, "stream_response")]
    /\ UNCHANGED <<Widgets, trigger, data_dir, data, chroma, chat_input,
                   session_state, offset, prompt, shown, documents, index,
                   error>>

\* start_time = time.time(); the listing is not empty: search_pdf(prompt)
RouteRetrieval(s) ==
    /\ pc[s] = "route"
    /\ ~StoreIsEmpty(data)
    /\ \E t \in StartTimes : start_time' = [start_time EXCEPT ![s] = t]
    /\ calls' = [calls EXCEPT ![s] = Append(@, "search_pdf")]
    /\ pc' = [pc EXCEPT ![s] = "search_pdf"]
    /\ UNCHANGED <<Widgets, trigger, data_dir, data, chroma, chat_input,
                   session_state, offset, prompt, elapsed_time, stream, shown,
                   response, documents, index, error>>

\* VectorStoreIndex.from_documents(documents, storage_context=...) adds the
\* documents' entries to the collection get_or_create_collection("reviews")
\* returned from the PersistentClient: what the collection holds afterwards.
Indexed(collection, docs) == collection \cup docs

\* search_pdf: documents = SimpleDirectoryReader("data/").load_data()
SearchLoad(s) ==
    /\ pc[s] = "search_pdf"
    /\ documents' = [documents EXCEPT ![s] = LoadData(data)]
    /\ pc' = [pc EXCEPT ![s] = "from_documents"]
    /\ UNCHANGED <<Widgets, trigger, data_dir, data, chroma, chat_input,
                   session_state, offset, prompt, start_time, elapsed_time,
                   stream, shown, response, index, calls, error>>

\* search_pdf: the client, the collection and the store are set up and
\* index = VectorStoreIndex.from_documents(documents, ...) stores the entries.
SearchIndex(s) ==
    /\ pc[s] = "from_documents"
    /\ chroma' = Indexed(chroma, documents[s])
    /\ pc' = [pc EXCEPT ![s] = "query"]
    /\ UNCHANGED <<Widgets, trigger, data_dir, data, chat_input,
                   session_state, offset, prompt, start_time, elapsed_time,
                   stream, shown, response, documents, index, calls, error>>

\* search_pdf: response = query_engine.query(query) retrieves from what the
\* collection holds by now; return response.response_gen.
SearchQuery(s) ==
    /\ pc[s] = "query"
    /\ index' = [index EXCEPT ![s] = chroma]
    /\ \E frags \in Responses :
          Returned(s, "response_gen", frags, start_time[s])
    /\ UNCHANGED <<Widgets, trigger, data_dir, data, chroma, chat_input,
                   session_state, offset, prompt, start_time, shown,
                   documents, calls, error>>

\* os.listdir('data/') raises.
RouteFail(s) ==
    /\ pc[s] = "route"
    /\ Raise(s, "listdir")

\* search_pdf raises (reader, embedding, vector store or query engine); what
\* from_documents has stored stays in the collection.
SearchFail(s) ==
    /\ pc[s] \in {"search_pdf", "from_documents", "query"}
    /\ Raise(s, "search_pdf")

\* st.write_stream / st.write takes the next fragment from the generator.
Drain(s) ==
    /\ pc[s] = "drain"
    /\ stream[s] # <<>>
    /\ shown' = [shown EXCEPT ![s] = Append(@, Head(stream[s]))]
    /\ stream' = [stream EXCEPT ![s] = Tail(@)]
    /\ UNCHANGED <<Widgets, trigger, data_dir, data, chroma, chat_input,
                   session_state, pc, offset, prompt, start_time,
                   elapsed_time, response, documents, index, calls, error>>

\* Mutant of DrainFail: the failure is caught and what was streamed so far is
\* kept as the answer.
DrainFailKeepsPartial(s) ==
    /\ pc[s] = "drain"
    /\ EndRun(s)
    /\ error' = [error EXCEPT ![s] = "stream"]
    /\ session_state' = [session_state EXCEPT ![s] =
          AppendTurn(@, AssistantTurn(Str(Join(shown[s])), 0))]
    /\ UNCHANGED <<Widgets, data_dir, data, chroma, chat_input>>

\* The service fails while the generator is being consumed.
DrainFail(s) ==
    /\ pc[s] = "drain"
    /\ Raise(s, "stream")

\* The generator is exhausted.  llm_interface.py: response is what
\* st.write_stream returns, then end_time is taken.
Drained(s) ==
    /\ pc[s] = "drain"
    /\ stream[s] = <<>>
    /\ IF TimedAtCall(s)
       THEN UNCHANGED <<response, elapsed_time>>
       ELSE /\ response' = [response EXCEPT ![s] = Str(Join(shown[s]))]
            /\ \E end_time \in EndTimes(start_time[s], Len(shown[s])) :
                  elapsed_time' = [elapsed_time EXCEPT
                     ![s] = <<Round2(end_time - start_time[s])>>]
    /\ pc' = [pc EXCEPT ![s] = "append"]
    /\ UNCHANGED <<Widgets, trigger, data_dir, data, chroma, chat_input,
                   session_state, offset, prompt, start_time, stream, shown,
                   documents, index, calls, error>>

\* st.session_state.messages.append({"role": "assistant", ...}); main() ends.
AppendAssistant(s) ==
    /\ pc[s] = "append"
    /\ session_state' = [session_state EXCEPT ![s] =
          AppendTurn(@, AssistantTurn(response[s], elapsed_time[s][1]))]
    /\ EndRun(s)
    /\ UNCHANGED <<Widgets, data_dir, data, chroma, chat_input, error>>

\* ---------------------------------------------------------------- Next
Next ==
    \E s \in Sessions :
        \/ \E f \in Files : UserUpload(s, f)
        \/ UserRemove(s)
        \/ \E p \in Prompts : UserSubmit(s, p)
        \/ UserClear(s)
        \/ CheckDir(s)
        \/ MakeDir(s)
        \/ SkipUpload(s)
        \/ SaveOpen(s)
        \/ SaveWrite(s)
        \/ SaveFail(s)
        \/ Initialize(s)
        \/ AcceptInput(s)
        \/ RouteGeneration(s)
        \/ RouteRetrieval(s)
        \/ RouteFail(s)
        \/ SearchLoad(s)
        \/ SearchIndex(s)
        \/ SearchQuery(s)
        \/ SearchFail(s)
        \/ Drain(s)
        \/ DrainFail(s)
        \/ Drained(s)
        \/ AppendAssistant(s)

Spec == Init /\ [][Next]_vars

SpecShared == InitShared /\ [][Next]_vars

\* ---------------------------------------------------------------- properties
IsPrefix(a, b) == Len(a) <= Len(b) /\ SubSeq(b, 1, Len(a)) = a
Last(seq) == seq[Len(seq)]
InTurn(s) ==
    pc[s] \in {"route", "search_pdf", "from_documents", "query", "drain",
               "append"}
\* An assistant turn other than the greeting.
Answered(s) ==
    \E i \in 2..Len(Messages(s)) : Messages(s)[i].role = "assistant"

\* C1: a prompt is routed to stream_response exactly when data/ lists no entry
\* at the moment of routing, and to search_pdf otherwise; a run calls at most
\* one service, and exactly one has been called when the answer is appended.
C1_Routing ==
    [][\A s \in Sessions :
         /\ (pc[s] = "route" /\ pc'[s] \in {"drain", "search_pdf"})
               => calls'[s] = <<IF DOMAIN data = {} THEN "stream_response"
                                ELSE "search_pdf">>
         /\ Len(calls'[s]) <= 1
         /\ (pc[s] = "append" /\ pc'[s] = "idle") => Len(calls[s]) = 1
         /\ (pc[s] = "query" /\ pc'[s] = "drain")
               => calls[s] = <<"search_pdf">>]_vars

\* A prompt goes to retrieval in a session whose earlier prompt was answered
\* by generation (no search_pdf call has completed yet: the collection is
\* still empty).
C1_Witness ==
    \E s \in Sessions :
        /\ pc[s] = "search_pdf"
        /\ calls[s] = <<"search_pdf">>
        /\ chroma = {}
        /\ Answered(s)

\* C2: a prompt p answered with response r after t seconds extends the history
\* by the user turn of p and then the assistant turn of r and t, and by
\* nothing else.
C2_TwoTurns ==
    [][\A s \in Sessions :
         LET before == Messages(s)
             after == Messages(s)'
             p == IF script[s] = "llm_interface"
                  THEN chat_input[s] ELSE user_input[s]
         IN  /\ (pc[s] = "input" /\ pc'[s] = "route")
                   => /\ after = before \o <<[role |-> "user",
                                              content |-> Str(p)]>>
                      /\ prompt'[s] = p
             /\ (InTurn(s) /\ pc[s] # "append") => after = before
             /\ (pc[s] = "append" /\ pc'[s] = "idle")
                   => /\ Last(before) = [role |-> "user",
                                         content |-> Str(prompt[s])]
                      /\ after = before \o
                            <<[role |-> "assistant",
                               content |-> response[s],
                               elapsed_time |-> elapsed_time[s][1]]>>]_vars

\* A history that ends with a user turn and its answer.
C2_Witness ==
    \E s \in Sessions :
        /\ pc[s] = "idle"
        /\ Len(Messages(s)) >= 2
        /\ Last(Messages(s)).role = "assistant"
        /\ Messages(s)[Len(Messages(s)) - 1].role = "user"
        /\ Last(Messages(s)).elapsed_time = 2

\* C3: once save_uploaded_file has returned, data/ lists the file's name and
\* the stored file holds exactly the uploaded bytes, also when a file of that
\* name was there before.
C3_RoundTrip ==
    \A s \in Sessions :
        (/\ uploader[s] # <<>>
         /\ pc[s] \notin {"closed", "exists", "mkdir", "upload", "write"}
         /\ error[s] \notin {"mkdir", "save_uploaded_file"})
           => /\ uploader[s][1].name \in DOMAIN data
              /\ data[uploader[s][1].name] = uploader[s][1].bytes

\* a.pdf has just been saved with bytes <<1>> over an a.pdf that held <<2, 3>>
\* (the collection still has the entry indexed from the older content).
C3_Witness ==
    \E s \in Sessions :
        /\ pc[s] = "init"
        /\ uploader[s] = <<[name |-> "a.pdf", bytes |-> <<1>>]>>
        /\ <<"a.pdf", <<2, 3>>>> \in chroma
        /\ data["a.pdf"] = <<1>>

\* The part of a run before the initializer.
BeforeInit(s) == pc[s] \in {"exists", "mkdir", "upload", "write"}

\* The initializer's step leaves an existing history as it is; only a session
\* without one gets the initial history of its script.
KeepsHistory(s) ==
    (pc[s] = "init" /\ pc'[s] # "init")
       => /\ pc'[s] = "input"
          /\ IF "messages" \in DOMAIN session_state[s]
             THEN session_state'[s] = session_state[s]
             ELSE Messages(s)' =
                    IF script[s] = "llm_interface"
                    THEN <<[role |-> "assistant",
                            content |-> Str("How can I help you?"),
                            elapsed_time |-> 0]>>
                    ELSE <<>>

\* C4 as claimed: every run passes through the initializer (nothing before it
\* ends the run), and the initializer leaves an existing history as it is.
C4_EveryRunInitializes ==
    [][\A s \in Sessions :
         /\ (BeforeInit(s) /\ pc'[s] # pc[s])
               => pc'[s] \in {"mkdir", "upload", "write", "init"}
         /\ KeepsHistory(s)]_vars

\* C4 as amended: every run passes through the initializer unless os.mkdir or
\* save_uploaded_file raises before it, which ends the run with the session
\* state untouched; the initializer leaves an existing history as it is.
C4_InitIdempotent ==
    [][\A s \in Sessions :
         /\ (BeforeInit(s) /\ pc'[s] # pc[s])
               => \/ pc'[s] \in {"mkdir", "upload", "write", "init"}
                  \/ /\ pc'[s] = "idle"
                     /\ error'[s] \in {"mkdir", "save_uploaded_file"}
                     /\ session_state'[s] = session_state[s]
         /\ KeepsHistory(s)]_vars

\* The initializer has run on a history that already held a user turn.
C4_Witness ==
    \E s \in Sessions :
        /\ pc[s] = "input"
        /\ \E i \in 1..Len(Messages(s)) : Messages(s)[i].role = "user"

\* C5: the history only grows at its end: in every step the history before is
\* a prefix of the history after, and an existing history never disappears.
C5_AppendOnly ==
    [][\A s \in Sessions :
         /\ "messages" \in DOMAIN session_state[s]
               => "messages" \in DOMAIN session_state'[s]
         /\ IsPrefix(Messages(s), Messages(s)')]_vars

\* A history that went through a failed turn and a later answered one.
C5_Witness ==
    \E s \in Sessions :
        \E i \in 1..(Len(Messages(s)) - 2) :
            /\ Messages(s)[i].role = "user"
            /\ Messages(s)[i + 1].role = "user"
            /\ Last(Messages(s)).role = "assistant"

\* C6: elapsed_time is taken, and the assistant turn is appended, only after
\* the response generator is exhausted, and the turn's content is the
\* concatenation of the fragments it yielded.
C6_DrainedFirst ==
    \A s \in Sessions :
        /\ elapsed_time[s] # <<>> => stream[s] = <<>>
        /\ pc[s] = "append"
              => /\ stream[s] = <<>>
                 /\ response[s] = Str(Join(shown[s]))

\* C7: a failure of the listing or of the service while a prompt is answered
\* ends the run at once: no second call, no other service, and the history
\* ends with the prompt's user turn, without an assistant turn or a partial
\* response.
C7_FailureAborts ==
    \A s \in Sessions :
        /\ Len(calls[s]) <= 1
        /\ error[s] \in {"listdir", "search_pdf", "stream"}
              => /\ pc[s] = "idle"
                 /\ calls[s] = <<>>
                 /\ Messages(s) # <<>>
                 /\ Last(Messages(s)).role = "user"

\* The service has failed while its answer was streamed, in a session that
\* had a completed exchange before: its history ends with the failed prompt's
\* user turn.
C7_Witness ==
    \E s \in Sessions :
        /\ error[s] = "stream"
        /\ Answered(s)
        /\ Last(Messages(s)).role = "user"

\* C8: the index that answers a query holds exactly the entries this call of
\* search_pdf loaded from data/.
C8_FreshIndex ==
    \A s \in Sessions :
        (pc[s] = "drain" /\ calls[s] = <<"search_pdf">>)
           => index[s] = documents[s]

\* C9 as claimed: every document search_pdf loads holds the complete bytes of
\* some upload of that name.
C9_CompleteUploads ==
    \A s \in Sessions :
        \A d \in documents[s] :
            \E f \in Files : f.name = d[1] /\ f.bytes = d[2]

\* C9 as amended: a loaded document is no longer than the longest upload of
\* its name and holds, at each position, the byte some upload of that name
\* has there; it may be empty, the beginning of an upload, or mix two
\* uploads.
C9_UploadBytesOnly ==
    \A s \in Sessions :
        \A d \in documents[s] :
            /\ \E f \in Files : f.name = d[1] /\ Len(d[2]) <= Len(f.bytes)
            /\ \A i \in 1..Len(d[2]) :
                  \E f \in Files :
                      /\ f.name = d[1]
                      /\ i <= Len(f.bytes)
                      /\ f.bytes[i] = d[2][i]

\* search_pdf has loaded a file another session was still writing: the
\* document is the first byte of the upload <<2, 3>>.
C9_Witness ==
    \E s \in Sessions :
        /\ pc[s] = "drain"
        /\ <<"a.pdf", <<2>>>> \in documents[s]

\* C10: a run started by anything but a prompt submission neither appends a
\* turn nor calls a service.
C10_OnlyOnSubmit ==
    \A s \in Sessions :
        InTurn(s) => trigger[s] \in {"chat_input", "text_input"}

====
